---- MODULE Spec2Model ----
(***************************************************************************)
(* A model of the transit-delay analysis: the graph built from trip        *)
(* records (src/src/graph.rs) and the analyses run over it                 *)
(* (src/src/metrics.rs): Dijkstra's shortest path, closeness centrality,   *)
(* Brandes' betweenness centrality and the per-route average delays.       *)
(*                                                                         *)
(* Stations are the numbers 1..NumStations; their order stands for the     *)
(* lexicographic order of the station names (String's Ord), which the      *)
(* binary heap uses to break ties between equal distances.                 *)
(* An f32 delay is a natural number, or NaN.  Sums of delays are exact;    *)
(* quotients are kept as fractions <<numerator, denominator>>.             *)
(***************************************************************************)
EXTENDS Integers, Sequences, FiniteSets, TLC

\* ------------------------------------------------------------------ bounds
NumStations == 3
MaxRecords == 2
MaxDelay == 1

Stations == 1..NumStations
Delays == 0..MaxDelay

\* --------------------------------------------------------- f32 and Option
\* f32::NAN, the one value NotNan::new refuses.
NaN == -1

\* dist + *weight
fadd(x, y) == IF x = NaN \/ y = NaN THEN NaN ELSE x + y

\* new_dist < current_dist: every comparison with NaN is false.
flt(x, y) == x # NaN /\ y # NaN /\ x < y

\* Option<T>: None, Some(x).
None == <<>>
Some(x) == <<x>>
is_some(o) == Len(o) = 1
unwrap(o) == o[1]

\* ------------------------------------------------------------------ state
VARIABLES
    records,     \* the trip records handed to from_records
    nodes,       \* TransitGraph.nodes: origin |-> sequence of <<destination, delay>>
    pc,          \* the operation the program is in
    start,       \* shortest_path: its arguments ...
    end,
    distances,   \* ... and its locals
    previous,
    heap,
    status,      \* "idle", "running", "returned", "panicked" (unwrap of NotNan::new failed)
    result,      \* what shortest_path returned: None or Some(<<dist, path>>)
    station,     \* closeness_centrality: its argument and what it returned
    closeness,
    centrality,  \* betweenness_centrality: the running totals ...
    todo,        \* ... and the sources of `for s in &all` not yet taken
    rows         \* what get_route_average_delays returned

pathVars == <<start, end, distances, previous, heap, status, result>>
closeVars == <<station, closeness>>
betweenVars == <<centrality, todo>>
vars == <<records, nodes, pc, pathVars, closeVars, betweenVars, rows>>

\* -------------------------------------------------------------- graph.rs
\* A TrainRecord, cut to the fields from_records reads.
TrainRecord(f, t, d) == [from |-> f, to |-> t, delay_minutes |-> d]

\* PushEdge that keeps one edge per (to, delay): a repeated trip is dropped.
PushEdgeOnce(g, f, t, d) ==
    IF f \in DOMAIN g
    THEN IF \E i \in 1..Len(g[f]) : g[f][i] = <<t, d>> THEN g
         ELSE [g EXCEPT ![f] = Append(@, <<t, d>>)]
    ELSE g @@ (f :> << <<t, d>> >>)

\* nodes.entry(from).or_default().push((to, delay))
PushEdge(g, f, t, d) ==
    IF f \in DOMAIN g THEN [g EXCEPT ![f] = Append(@, <<t, d>>)]
    ELSE g @@ (f :> << <<t, d>> >>)

RECURSIVE BuildFrom(_, _, _)
BuildFrom(g, recs, i) ==
    IF i > Len(recs) THEN g
    ELSE LET r == recs[i] IN
         IF is_some(r.delay_minutes)
         THEN BuildFrom(PushEdge(g, r.from, r.to, unwrap(r.delay_minutes)), recs, i + 1)
         ELSE BuildFrom(g, recs, i + 1)

from_records(recs) == BuildFrom(<<>>, recs, 1)

\* ------------------------------------------------------------ metrics.rs
\* all_stations: every key and every destination.
all_stations(g) ==
    DOMAIN g \cup UNION {{g[f][i][1] : i \in 1..Len(g[f])} : f \in DOMAIN g}

\* HashMap::insert
insert(m, k, v) == IF k \in DOMAIN m THEN [m EXCEPT ![k] = v] ELSE m @@ (k :> v)

\* Ord of Reverse((NotNan<f32>, Station)): the smaller distance first, then the
\* smaller station name.
HeapLeq(a, b) == a[1] < b[1] \/ (a[1] = b[1] /\ a[2] <= b[2])

\* HeapMin without the Reverse wrapper: BinaryHeap is a max-heap.
HeapMax(h) ==
    CHOOSE i \in 1..Len(h) :
        /\ \A j \in 1..Len(h) : HeapLeq(h[j], h[i])
        /\ \A j \in 1..(i - 1) : h[j] # h[i]

\* The place of the element BinaryHeap::pop takes: a least one.
HeapMin(h) ==
    CHOOSE i \in 1..Len(h) :
        /\ \A j \in 1..Len(h) : HeapLeq(h[i], h[j])
        /\ \A j \in 1..(i - 1) : h[j] # h[i]

RemoveAt(h, i) == SubSeq(h, 1, i - 1) \o SubSeq(h, i + 1, Len(h))

RECURSIVE Reverse(_)
Reverse(s) == IF s = <<>> THEN <<>> ELSE Append(Reverse(Tail(s)), Head(s))

\* while let Some(prevstation) = previous.get(&current) { path.push(..); current = .. }
\* The walk has no bound in the code.  A walk that takes more steps than
\* `previous` has keys has met a key twice and never ends: None stands for that.
RECURSIVE WalkBack(_, _, _, _)
WalkBack(prev, current, path, fuel) ==
    IF current \notin DOMAIN prev THEN Some(path)
    ELSE IF fuel = 0 THEN None
    ELSE WalkBack(prev, prev[current], Append(path, prev[current]), fuel - 1)

\* IsBetter with <= for <: an equal distance replaces the recorded one.
IsBetterOrEqual(dists, neighbor, new_dist) ==
    IF neighbor \notin DOMAIN dists THEN TRUE
    ELSE new_dist # NaN /\ dists[neighbor] # NaN /\ new_dist <= dists[neighbor]

\* match distances.get(neighbor) { None => true, Some(&d) => new_dist < d }
IsBetter(dists, neighbor, new_dist) ==
    IF neighbor \notin DOMAIN dists THEN TRUE ELSE flt(new_dist, dists[neighbor])

\* for (neighbor, weight) in neighbors { ... }, from the i-th neighbour on.
\* NotNan::new(new_dist).unwrap() panics on NaN, after the two inserts.
RECURSIVE Relax(_, _, _, _, _)
Relax(st, u, dist, neighbors, i) ==
    IF i > Len(neighbors) THEN st
    ELSE LET neighbor == neighbors[i][1]
             new_dist == fadd(dist, neighbors[i][2])
         IN  IF ~IsBetter(st.distances, neighbor, new_dist)
             THEN Relax(st, u, dist, neighbors, i + 1)
             ELSE LET st1 == [st EXCEPT !.distances = insert(@, neighbor, new_dist),
                                        !.previous = insert(@, neighbor, u)]
                  IN  IF new_dist = NaN
                      THEN [st1 EXCEPT !.status = "panicked"]
                      ELSE Relax([st1 EXCEPT !.heap = Append(@, <<new_dist, neighbor>>)],
                                 u, dist, neighbors, i + 1)

\* The locals of shortest_path before its loop.
PathStart(a) ==
    [distances |-> (a :> 0), previous |-> <<>>, heap |-> << <<0, a>> >>,
     status |-> "running", result |-> None]

\* One turn of `while let Some(..) = heap.pop()`, or the `None` after the loop.
PathIter(g, e, st) ==
    IF st.heap = <<>> THEN [st EXCEPT !.status = "returned", !.result = None]
    ELSE LET i == HeapMin(st.heap)
             dist == st.heap[i][1]
             u == st.heap[i][2]
             popped == [st EXCEPT !.heap = RemoveAt(@, i)]
         IN  IF u = e
             THEN LET walk == WalkBack(st.previous, e, <<e>>,
                                       Cardinality(DOMAIN st.previous) + 1)
                  IN  IF is_some(walk)
                      THEN [popped EXCEPT !.status = "returned",
                                          !.result = Some(<<dist, Reverse(unwrap(walk))>>)]
                      ELSE [popped EXCEPT !.status = "hung"]
             ELSE IF u \in DOMAIN g THEN Relax(popped, u, dist, g[u], 1)
             ELSE popped

RECURSIVE PathLoop(_, _, _)
PathLoop(g, e, st) ==
    IF st.status # "running" THEN st ELSE PathLoop(g, e, PathIter(g, e, st))

\* shortest_path(start, end), run to its end: what it returns.  (Over delays
\* that are numbers the call never panics.)
shortest_path(g, a, b) == PathLoop(g, b, PathStart(a)).result

RECURSIVE SumOver(_, _)
SumOver(S, f) ==
    IF S = {} THEN 0
    ELSE LET x == CHOOSE y \in S : TRUE IN f[x] + SumOver(S \ {x}, f)

\* for other in self.nodes.keys(), without the key that is `station` itself
OthersVisited(g, s) == DOMAIN g \ {s}

\* ClosenessScore without the test of total_delay: divides by zero.
ClosenessScoreNoZeroTest(reachable, total_delay) ==
    IF reachable = 0 THEN None ELSE Some(<<reachable, total_delay>>)

\* The if/else that ends closeness_centrality; Some(<<n, d>>) is the score n / d.
ClosenessScore(reachable, total_delay) ==
    IF total_delay = 0 \/ reachable = 0 THEN None
    ELSE Some(<<reachable, total_delay>>)

\* closeness_centrality(station)
closeness_centrality(g, s) ==
    LET found == [o \in OthersVisited(g, s) |-> shortest_path(g, s, o)]
        hit == {o \in OthersVisited(g, s) : is_some(found[o])}
        delay == [o \in hit |-> unwrap(found[o])[1]]
    IN  ClosenessScore(Cardinality(hit), SumOver(hit, delay))

\* f32 quotients, kept exact: <<n, d>> is n / d in lowest terms with d > 0, and
\* d = 0 marks a value that is not finite (a division by zero).
RECURSIVE Gcd(_, _)
Gcd(a, b) == IF b = 0 THEN a ELSE Gcd(b, a % b)

Abs(x) == IF x < 0 THEN 0 - x ELSE x

Frac(n, d) ==
    IF d = 0 THEN <<n, 0>>
    ELSE LET k == Gcd(Abs(n), Abs(d))
             sign == IF d < 0 THEN 0 - 1 ELSE 1
         IN  <<(sign * n) \div k, (sign * d) \div k>>

Zero == <<0, 1>>
One == <<1, 1>>
FAdd(x, y) == Frac(x[1] * y[2] + y[1] * x[2], x[2] * y[2])
FMul(x, y) == Frac(x[1] * y[1], x[2] * y[2])
FDiv(x, y) == Frac(x[1] * y[2], x[2] * y[1])
FLess(x, y) == x[1] * y[2] < y[1] * x[2]
is_finite(x) == x[2] # 0

\* self.nodes.get(&v).into_iter().flatten(), preds.get(&w).into_iter().flatten()
get_or_empty(m, k) == IF k \in DOMAIN m THEN m[k] ELSE <<>>

\* The body of `for (w, _) in ...` of the breadth-first search, from the i-th
\* edge of v on.
RECURSIVE VisitEdges(_, _, _, _)
VisitEdges(st, v, out, i) ==
    IF i > Len(out) THEN st
    ELSE LET w == out[i][1]
             d_v == st.dist[v]
             st1 == IF st.dist[w] < 0
                    THEN [st EXCEPT !.dist[w] = d_v + 1, !.queue = Append(@, w)]
                    ELSE st
             st2 == IF st1.dist[w] = d_v + 1
                    THEN [st1 EXCEPT !.sigma[w] = @ + st.sigma[v],
                                     !.preds = insert(@, w, Append(get_or_empty(@, w), v))]
                    ELSE st1
         IN  VisitEdges(st2, v, out, i + 1)

\* while let Some(v) = queue.pop_front() { ... }
RECURSIVE Bfs(_, _)
Bfs(g, st) ==
    IF st.queue = <<>> THEN st
    ELSE LET v == Head(st.queue)
             st1 == [st EXCEPT !.queue = Tail(@), !.stack = Append(@, v)]
         IN  Bfs(g, VisitEdges(st1, v, get_or_empty(g, v), 1))

\* for v in preds.get(&w).into_iter().flatten() { ... }, from the i-th one on
RECURSIVE SpreadToPreds(_, _, _, _, _)
SpreadToPreds(delta, sigma, w, ps, i) ==
    IF i > Len(ps) THEN delta
    ELSE LET v == ps[i]
             sig_w == sigma[w]
             c == FMul(FDiv(<<sigma[v], 1>>, <<sig_w, 1>>), FAdd(One, delta[w]))
         IN  SpreadToPreds(IF sig_w > 0 THEN [delta EXCEPT ![v] = FAdd(@, c)] ELSE delta,
                           sigma, w, ps, i + 1)

\* Contribute without the test w != *s: the source's own delta is added too.
ContributeAlsoSource(cent, s, w, contrib) ==
    IF is_finite(contrib) /\ ~FLess(contrib, Zero) /\ w \in DOMAIN cent
    THEN [cent EXCEPT ![w] = FAdd(@, contrib)]
    ELSE cent

\* if w != *s { if contrib.is_finite() && contrib >= 0.0 { centrality.entry(w).and_modify(..) } }
Contribute(cent, s, w, contrib) ==
    IF w # s /\ is_finite(contrib) /\ ~FLess(contrib, Zero) /\ w \in DOMAIN cent
    THEN [cent EXCEPT ![w] = FAdd(@, contrib)]
    ELSE cent

\* while let Some(w) = stack.pop() { ... }: acc is <<delta, centrality>>
RECURSIVE Accumulate(_, _, _, _, _)
Accumulate(stack, preds, sigma, s, acc) ==
    IF stack = <<>> THEN acc
    ELSE LET w == stack[Len(stack)]
             delta == SpreadToPreds(acc[1], sigma, w, get_or_empty(preds, w), 1)
         IN  Accumulate(SubSeq(stack, 1, Len(stack) - 1), preds, sigma, s,
                        <<delta, Contribute(acc[2], s, w, delta[w])>>)

\* The centrality map with only the origin stations in it.
CentralityOfKeys(g) == [v \in DOMAIN g |-> Zero]

\* centrality: all.iter().map(|v| (v.clone(), 0.0)).collect()
CentralityInit(g) == [v \in all_stations(g) |-> Zero]

\* The body of `for s in &all`: the centrality map after source s.
SourcePass(g, s, cent) ==
    LET all == all_stations(g)
        st0 == [stack |-> <<>>, preds |-> <<>>,
                sigma |-> [v \in all |-> IF v = s THEN 1 ELSE 0],
                dist |-> [v \in all |-> IF v = s THEN 0 ELSE 0 - 1],
                queue |-> <<s>>]
        st == Bfs(g, st0)
    IN  Accumulate(st.stack, st.preds, st.sigma, s, <<[v \in all |-> Zero], cent>>)[2]

\* The key a route's edges are summed under, without the direction.
RouteKeyUnordered(from, to) == IF from <= to THEN <<from, to>> ELSE <<to, from>>

\* totalroutes.entry((from.clone(), to.clone()))
RouteKey(from, to) == <<from, to>>

\* for (to, delay) in neighbors { entry.0 += *delay; entry.1 += 1 }, from the
\* i-th edge of `from` on; an entry is <<total delay, trips>>.
RECURSIVE AddTrips(_, _, _, _)
AddTrips(total, from, out, i) ==
    IF i > Len(out) THEN total
    ELSE LET k == RouteKey(from, out[i][1])
             e == IF k \in DOMAIN total THEN total[k] ELSE <<0, 0>>
         IN  AddTrips(insert(total, k, <<e[1] + out[i][2], e[2] + 1>>), from, out, i + 1)

\* for (from, neighbors) in &self.nodes { ... }
RECURSIVE AddOrigins(_, _, _)
AddOrigins(total, g, origins) ==
    IF origins = {} THEN total
    ELSE LET from == CHOOSE f \in origins : TRUE
         IN  AddOrigins(AddTrips(total, from, g[from], 1), g, origins \ {from})

\* get_route_average_delays(): the rows ((from, to), total / count, count)
get_route_average_delays(g) ==
    LET total == AddOrigins(<<>>, g, DOMAIN g)
    IN  {[route |-> k, avg |-> Frac(total[k][1], total[k][2]), trips |-> total[k][2]] :
            k \in DOMAIN total}

\* ------------------------------------------------------------- the inputs
DelayOptions == {None} \cup {Some(d) : d \in Delays}

RecordSeqs(Recs, n) == UNION {[1..k -> Recs] : k \in 0..n}

\* Records whose delay is present and a number.
PlainRecords == {TrainRecord(f, t, Some(d)) : f \in Stations, t \in Stations, d \in Delays}

\* The graphs from_records builds from up to MaxRecords such records.
PlainGraphs == {from_records(recs) : recs \in RecordSeqs(PlainRecords, MaxRecords)}

\* ----------------------------------------------------------- shortest_path
IdlePath ==
    /\ start = 0 /\ end = 0 /\ distances = <<>> /\ previous = <<>>
    /\ heap = <<>> /\ status = "idle" /\ result = None
IdleClose == station = 0 /\ closeness = None
IdleBetween == centrality = <<>> /\ todo = {}

InitPath ==
    /\ records = <<>>
    /\ nodes \in PlainGraphs
    /\ pc = "shortest_path"
    /\ IdlePath /\ IdleClose /\ IdleBetween /\ rows = {}

\* The call: lines 26-30.
PathCall(a, b) ==
    /\ pc = "shortest_path" /\ status = "idle"
    /\ start' = a /\ end' = b
    /\ LET st == PathStart(a) IN
        /\ distances' = st.distances /\ previous' = st.previous
        /\ heap' = st.heap /\ status' = st.status /\ result' = st.result
    /\ UNCHANGED <<records, nodes, pc, closeVars, betweenVars, rows>>

PathStep ==
    /\ pc = "shortest_path" /\ status = "running"
    /\ LET st == PathIter(nodes, end,
                          [distances |-> distances, previous |-> previous, heap |-> heap,
                           status |-> status, result |-> result]) IN
        /\ distances' = st.distances /\ previous' = st.previous
        /\ heap' = st.heap /\ status' = st.status /\ result' = st.result
    /\ UNCHANGED <<records, nodes, pc, start, end, closeVars, betweenVars, rows>>

NextPath ==
    \/ \E a \in Stations, b \in Stations : PathCall(a, b)
    \/ PathStep

SpecPath == InitPath /\ [][NextPath]_vars

\* The same calls over graphs some of whose delays are NaN.
NaNRecords ==
    {TrainRecord(f, t, Some(d)) : f \in Stations, t \in Stations, d \in Delays \cup {NaN}}

InitNaN ==
    /\ records = <<>>
    /\ nodes \in {from_records(recs) : recs \in RecordSeqs(NaNRecords, MaxRecords)}
    /\ pc = "shortest_path"
    /\ IdlePath /\ IdleClose /\ IdleBetween /\ rows = {}

SpecNaN == InitNaN /\ [][NextPath]_vars

\* ---------------------------------------------------- closeness_centrality
InitClose ==
    /\ records = <<>>
    /\ nodes \in PlainGraphs
    /\ pc = "closeness"
    /\ IdlePath /\ IdleClose /\ IdleBetween /\ rows = {}

ClosenessCall(s) ==
    /\ pc = "closeness"
    /\ station' = s
    /\ closeness' = closeness_centrality(nodes, s)
    /\ UNCHANGED <<records, nodes, pc, pathVars, betweenVars, rows>>

NextClose == \E s \in Stations : ClosenessCall(s)

SpecClose == InitClose /\ [][NextClose]_vars

\* The program is one thread that runs each call to its end: a step that can be
\* taken is taken.
SpecPathFair == SpecPath /\ WF_vars(NextPath)

\* -------------------------------------------------- betweenness_centrality
\* Betweenness reads no delay (`for (w, _) in ...`): every record carries the
\* same one, and the graphs hold one record more than elsewhere.
HopRecords == {TrainRecord(f, t, Some(1)) : f \in Stations, t \in Stations}

InitBetween ==
    /\ records = <<>>
    /\ nodes \in {from_records(recs) : recs \in RecordSeqs(HopRecords, MaxRecords + 1)}
    /\ pc = "betweenness"
    /\ IdlePath /\ IdleClose /\ IdleBetween /\ rows = {}

\* Lines 113-116: the stations and the map of zeros.
BetweennessStart ==
    /\ pc = "betweenness"
    /\ centrality' = CentralityInit(nodes)
    /\ todo' = all_stations(nodes)
    /\ pc' = "between_loop"
    /\ UNCHANGED <<records, nodes, pathVars, closeVars, rows>>

\* One source of `for s in &all`, in the order the HashSet happens to give.
BetweennessSource(s) ==
    /\ pc = "between_loop" /\ s \in todo
    /\ centrality' = SourcePass(nodes, s, centrality)
    /\ todo' = todo \ {s}
    /\ UNCHANGED <<records, nodes, pc, pathVars, closeVars, rows>>

BetweennessReturn ==
    /\ pc = "between_loop" /\ todo = {}
    /\ pc' = "between_done"
    /\ UNCHANGED <<records, nodes, pathVars, closeVars, betweenVars, rows>>

NextBetween ==
    \/ BetweennessStart
    \/ \E s \in Stations : BetweennessSource(s)
    \/ BetweennessReturn

SpecBetween == InitBetween /\ [][NextBetween]_vars

\* ------------------------------------------------ get_route_average_delays
\* Scenario 2 of the specification: six trips 1 -> 2 with delays 1,1,1,1,1,10.
Scenario2Records ==
    [i \in 1..6 |-> TrainRecord(1, 2, Some(IF i = 6 THEN 10 ELSE 1))]

InitRoutes ==
    /\ records = <<>>
    /\ nodes \in PlainGraphs \cup {from_records(Scenario2Records)}
    /\ pc = "routes"
    /\ IdlePath /\ IdleClose /\ IdleBetween /\ rows = {}

RouteAverages ==
    /\ pc = "routes"
    /\ rows' = get_route_average_delays(nodes)
    /\ pc' = "routes_done"
    /\ UNCHANGED <<records, nodes, pathVars, closeVars, betweenVars>>

NextRoutes == RouteAverages

SpecRoutes == InitRoutes /\ [][NextRoutes]_vars

\* ------------------------------------------------------------ from_records
OptionRecords ==
    {TrainRecord(f, t, d) : f \in Stations, t \in Stations, d \in DelayOptions}

InitBuild ==
    /\ records \in RecordSeqs(OptionRecords, MaxRecords)
    /\ nodes = <<>>
    /\ pc = "build"
    /\ IdlePath /\ IdleClose /\ IdleBetween /\ rows = {}

FromRecords ==
    /\ pc = "build"
    /\ nodes' = from_records(records)
    /\ pc' = "built"
    /\ UNCHANGED <<records, pathVars, closeVars, betweenVars, rows>>

NextBuild == FromRecords

SpecBuild == InitBuild /\ [][NextBuild]_vars

\* ------------------------------------------------- what the claims speak of
\* The delays of the parallel edges a -> b.
EdgeDelays(g, a, b) ==
    IF a \in DOMAIN g THEN {g[a][i][2] : i \in {j \in 1..Len(g[a]) : g[a][j][1] = b}}
    ELSE {}

HasEdge(g, a, b) == EdgeDelays(g, a, b) # {}

\* The stations some path (of zero or more edges) leads to from those of S.
RECURSIVE ReachSet(_, _)
ReachSet(g, S) ==
    LET T == S \cup {b \in all_stations(g) : \E a \in S : HasEdge(g, a, b)}
    IN  IF T = S THEN S ELSE ReachSet(g, T)

Reachable(g, a, b) == b \in ReachSet(g, {a})

NoRepeat(p) == \A i, j \in 1..Len(p) : i # j => p[i] # p[j]

\* The paths a ... b that visit no station twice; with delays >= 0 any other
\* path costs at least as much as one of these.
RECURSIVE PathsFrom(_, _, _)
PathsFrom(g, p, b) ==
    LET last == p[Len(p)]
        more == UNION {PathsFrom(g, Append(p, n), b) :
                         n \in {x \in all_stations(g) :
                                  HasEdge(g, last, x) /\ \A i \in 1..Len(p) : p[i] # x}}
    IN  IF last = b THEN {p} ELSE more

SimplePaths(g, a, b) == PathsFrom(g, <<a>>, b)

\* The total delays of path p from its i-th station on, one edge picked per hop.
RECURSIVE Costs(_, _, _)
Costs(g, p, i) ==
    IF i >= Len(p) THEN {0}
    ELSE {w + c : w \in EdgeDelays(g, p[i], p[i + 1]), c \in Costs(g, p, i + 1)}

Returned == pc = "shortest_path" /\ status = "returned"

\* C1: when end is reachable from start (start = end included), shortest_path
\* returns Some((d, path)): path runs from start to end along edges of the graph,
\* d is the sum of the delays of the edges used, and no path from start to end
\* has a smaller total delay.
C1_ShortestPathIsShortest ==
    (Returned /\ Reachable(nodes, start, end)) =>
        /\ is_some(result)
        /\ LET d == unwrap(result)[1]
               path == unwrap(result)[2]
           IN  /\ Len(path) >= 1
               /\ path[1] = start /\ path[Len(path)] = end
               /\ \A i \in 1..(Len(path) - 1) : HasEdge(nodes, path[i], path[i + 1])
               /\ d \in Costs(nodes, path, 1)
               /\ \A p \in SimplePaths(nodes, start, end) :
                      \A c \in Costs(nodes, p, 1) : c >= d

\* A call that returned a path of two hops and a delay above zero.
C1_Witness ==
    /\ Returned /\ is_some(result)
    /\ Len(unwrap(result)[2]) = 3
    /\ unwrap(result)[1] > 0

\* C2: shortest_path returns None whenever end is not reachable from start, and
\* whenever start or end appears in no edge of the graph, start = end included.
C2_NoneWhenUnreachableOrAbsent ==
    (Returned /\ (\/ ~Reachable(nodes, start, end)
                  \/ start \notin all_stations(nodes)
                  \/ end \notin all_stations(nodes))) => result = None

\* The station the next turn of the loop pops.
Popped == heap[HeapMin(heap)][2]

HasNaNEdge(g, u) == u \in DOMAIN g /\ \E i \in 1..Len(g[u]) : g[u][i][2] = NaN

\* C9: a turn of the loop that expands a station with an outgoing NaN edge
\* panics, whether or not the edge's destination has a distance already.
C9_PanicOnNaNEdge ==
    [][(PathStep /\ heap # <<>> /\ Popped # end /\ HasNaNEdge(nodes, Popped))
           => status' = "panicked"]_vars

\* The least total delay of a path a ... b, b reachable from a.
MinCost(g, a, b) ==
    LET all == UNION {Costs(g, p, 1) : p \in SimplePaths(g, a, b)}
    IN  CHOOSE c \in all : \A x \in all : c <= x

\* The stations other than s that s reaches, among all stations of the graph.
Peers(g, s) == ReachSet(g, {s}) \ {s}

PeerDelay(g, s) == SumOver(Peers(g, s), [o \in Peers(g, s) |-> MinCost(g, s, o)])

Called == pc = "closeness" /\ station # 0

\* C3: when s reaches k >= 1 other stations of the graph (destination-only
\* stations counted) with total shortest delay t # 0, closeness_centrality(s)
\* is Some(k / t).
C3_ClosenessIsCountOverDelay ==
    (Called /\ Peers(nodes, station) # {} /\ PeerDelay(nodes, station) # 0) =>
        /\ is_some(closeness)
        /\ unwrap(closeness)[1] * PeerDelay(nodes, station)
               = Cardinality(Peers(nodes, station)) * unwrap(closeness)[2]

\* C4: closeness_centrality(s) is None when s reaches no other station and when
\* every station it reaches is reached with delay 0; it is never a score of
\* zero and never a quotient by zero.
C4_NoScoreWhenDegenerate ==
    Called =>
        /\ (Peers(nodes, station) = {} \/ PeerDelay(nodes, station) = 0)
               => closeness = None
        /\ is_some(closeness) => unwrap(closeness)[1] # 0 /\ unwrap(closeness)[2] # 0

\* A station that reaches another one, all at delay 0, and got no score.
C4_Witness ==
    /\ Called /\ closeness = None
    /\ station \in DOMAIN nodes
    /\ \E o \in DOMAIN nodes : o \in Peers(nodes, station)
    /\ PeerDelay(nodes, station) = 0

InLoop == pc \in {"between_loop", "between_done"}

\* C5: the map betweenness_centrality builds has one entry per station of the
\* graph, destination-only stations included, and every score in it is finite
\* and >= 0, after each source as at the end.
C5_ScoresFiniteNonNegative ==
    InLoop =>
        /\ DOMAIN centrality = all_stations(nodes)
        /\ \A v \in DOMAIN centrality :
               is_finite(centrality[v]) /\ ~FLess(centrality[v], Zero)

\* Some sources done and some to do, a score above zero, and a station that is
\* only ever a destination.
C5_Witness ==
    /\ pc = "between_loop" /\ todo # {} /\ todo # all_stations(nodes)
    /\ \E v \in DOMAIN centrality : FLess(Zero, centrality[v])
    /\ all_stations(nodes) # DOMAIN nodes

\* h is the hub of a star: every edge joins h and another station, and there
\* is at least one other station.
IsStar(g, h) ==
    /\ h \in all_stations(g) /\ all_stations(g) # {h}
    /\ \A a \in DOMAIN g : \A i \in 1..Len(g[a]) :
           a # g[a][i][1] /\ (a = h \/ g[a][i][1] = h)

Leaves(g, h) == all_stations(g) \ {h}

\* Some leaf has an edge into the hub and another leaf an edge out of it.
Through(g, h) ==
    \E l1 \in Leaves(g, h), l2 \in Leaves(g, h) :
        l1 # l2 /\ HasEdge(g, l1, h) /\ HasEdge(g, h, l2)

\* C6 as stated: in every star graph with N >= 1 leaves the hub's score is above
\* every leaf's and every leaf's score is zero.
C6_HubAboveEveryLeaf ==
    pc = "between_done" =>
        \A h \in Stations : IsStar(nodes, h) =>
            \A l \in Leaves(nodes, h) :
                centrality[l] = Zero /\ FLess(centrality[l], centrality[h])

\* C6, amended: in every star graph every leaf's score is zero, and the hub's
\* score is above zero exactly when some leaf has an edge into the hub and a
\* different leaf has an edge out of it.
C6_LeavesZeroHubAboveIffThrough ==
    pc = "between_done" =>
        \A h \in Stations : IsStar(nodes, h) =>
            /\ \A l \in Leaves(nodes, h) : centrality[l] = Zero
            /\ FLess(Zero, centrality[h]) <=> Through(nodes, h)

\* A star whose hub lies between two leaves, scored.
C6_Witness ==
    /\ pc = "between_done"
    /\ \E h \in Stations :
           IsStar(nodes, h) /\ Through(nodes, h) /\ FLess(Zero, centrality[h])

\* The places of the edges a -> b in a's list.
TripsOf(g, a, b) ==
    IF a \in DOMAIN g THEN {i \in 1..Len(g[a]) : g[a][i][1] = b} ELSE {}

DelaySum(g, a, b) == SumOver(TripsOf(g, a, b), [i \in TripsOf(g, a, b) |-> g[a][i][2]])

Routes(g) == {<<a, b>> \in all_stations(g) \X all_stations(g) : HasEdge(g, a, b)}

\* C7: get_route_average_delays returns one row per ordered pair that has an
\* edge and no other row; trip_count is the number of parallel edges of the
\* pair and the average is the sum of their delays over trip_count; the edges
\* of the reversed pair are not counted.
C7_OneRowPerRoute ==
    pc = "routes_done" =>
        /\ {r.route : r \in rows} = Routes(nodes)
        /\ Cardinality(rows) = Cardinality(Routes(nodes))
        /\ \A r \in rows :
               /\ r.trips = Cardinality(TripsOf(nodes, r.route[1], r.route[2]))
               /\ r.avg[2] > 0
               /\ r.avg[1] * r.trips = DelaySum(nodes, r.route[1], r.route[2]) * r.avg[2]

\* Scenario 2: the six trips give the one row (1 -> 2, 2.5, 6).
C7_Witness ==
    /\ pc = "routes_done"
    /\ nodes = from_records(Scenario2Records)
    /\ rows = {[route |-> <<1, 2>>, avg |-> <<5, 2>>, trips |-> 6]}

\* The edges a graph must hold for origin f: one per record from f whose delay
\* is present, in the order of the records.
RECURSIVE OutOf(_, _)
OutOf(recs, f) ==
    IF recs = <<>> THEN <<>>
    ELSE LET r == recs[Len(recs)]
             before == OutOf(SubSeq(recs, 1, Len(recs) - 1), f)
         IN  IF r.from = f /\ r.delay_minutes # None
             THEN before \o << <<r.to, r.delay_minutes[1]>> >>
             ELSE before

\* C8: from_records builds the graph with one edge per record whose delay is
\* present and none for the others, parallel edges kept, each origin's edges
\* in the order of their records.
C8_OneEdgePerRecordWithDelay ==
    pc = "built" =>
        /\ DOMAIN nodes = {f \in Stations : OutOf(records, f) # <<>>}
        /\ \A f \in DOMAIN nodes : nodes[f] = OutOf(records, f)

\* Two records of the same trip gave two parallel edges.
C8_Witness ==
    /\ pc = "built" /\ Len(records) = 2
    /\ records[1] = records[2] /\ records[1].delay_minutes # None
    /\ Len(nodes[records[1].from]) = 2

\* The predecessor links lead from no station back to itself.
RECURSIVE LeadsBack(_, _, _, _)
LeadsBack(prev, from, current, fuel) ==
    /\ current \in DOMAIN prev
    /\ \/ prev[current] = from
       \/ fuel > 0 /\ LeadsBack(prev, from, prev[current], fuel - 1)

Acyclic(prev) ==
    \A s \in DOMAIN prev : ~LeadsBack(prev, s, s, Cardinality(DOMAIN prev))

PathSafe ==
    pc = "shortest_path" =>
        /\ status \in {"idle", "running", "returned"}
        /\ start \notin DOMAIN previous
        /\ Acyclic(previous)
        /\ (status = "returned" /\ is_some(result)) =>
               /\ NoRepeat(unwrap(result)[2])
               /\ unwrap(result)[2][1] = start

\* What the loop still has to do: the recorded distances summed, a station with
\* none counted as Top (above the delay of any path that repeats no station),
\* and then the length of the heap.  Neither can fall forever.
Top == NumStations * MaxDelay + 1

Slack(dists) ==
    SumOver(Stations, [v \in Stations |-> IF v \in DOMAIN dists THEN dists[v] ELSE Top])

Lower ==
    \/ Slack(distances') < Slack(distances)
    \/ Slack(distances') = Slack(distances) /\ Len(heap') < Len(heap)

\* C10: with delays >= 0 every call ends: each turn of the loop returns (the heap
\* was empty or end was popped) or leaves less to do.  Meanwhile start gets no
\* predecessor and the predecessor links form no cycle, so the walk back ends at
\* start and the path holds no station twice.
C10_CallTerminates ==
    [][PathSafe' /\ (PathStep => (status' = "returned" \/ (status' = "running" /\ Lower)))]_vars

\* The same end of every call as a liveness property of SpecPathFair.
PathEventuallyReturns == <>(status = "returned")

\* A call over a cycle of delay 0 that returned a path of more than one station.
C10_Witness ==
    /\ Returned /\ is_some(result) /\ Len(unwrap(result)[2]) >= 2
    /\ \E a \in DOMAIN nodes, b \in DOMAIN nodes :
           a # b /\ 0 \in EdgeDelays(nodes, a, b) /\ 0 \in EdgeDelays(nodes, b, a)

====
